---- MODULE Spec2Model ----
(***************************************************************************)
(* A model of s3sync.py: the snapshot trees of a local directory and of a  *)
(* bucket, the two-pass difference that fills the six synchronization      *)
(* lists, and the execution of those lists.                                *)
(*                                                                         *)
(* Paths and keys are Python strings; they are modelled as sequences of    *)
(* one-character strings so that rsplit, lstrip, endswith and slicing are  *)
(* computed as the code computes them.  The alphabet has no backslash and  *)
(* no dot, so replace('\\', '/') and the '.'/'..' rules of normpath never  *)
(* apply.  The 'mtime' entry of a node's data is never read by the code    *)
(* (the comparison is commented out, lines 213-214) and is kept only as a  *)
(* key of the data dictionary.                                             *)
(***************************************************************************)
EXTENDS Naturals, Integers, Sequences, FiniteSets, TLC

\* ------------------------------------------------------------------ bounds
MaxKeyLen == 3      \* longest key of an arbitrary listing
MaxListing == 2     \* most keys in an arbitrary listing
MaxLocal == 2       \* most entries below the local root
MaxBucket == 2      \* most objects in the bucket
MaxSize == 1        \* largest size of a file, a directory or an object
MaxRuns == 2        \* most starts of the program in a row

\* ------------------------------------------------------------ str helpers
Slash == "/"

None == <<"None">>

EndsWithSlash(s) == Len(s) > 0 /\ s[Len(s)] = Slash

StartsWith(s, p) == Len(p) <= Len(s) /\ SubSeq(s, 1, Len(p)) = p

SetMax(S) == CHOOSE m \in S : \A x \in S : x <= m

SetMin(S) == CHOOSE m \in S : \A x \in S : m <= x

\* s.rfind('/') + 1: the 1-based index of the last slash, 0 when there is none
RFind(s) ==
  LET I == {i \in 1..Len(s) : s[i] = Slash}
  IN IF I = {} THEN 0 ELSE SetMax(I)

\* s.rsplit('/', 1)
RSplit1(s) ==
  IF RFind(s) = 0 THEN <<s>>
  ELSE <<SubSeq(s, 1, RFind(s) - 1), SubSeq(s, RFind(s) + 1, Len(s))>>

\* s.lstrip('/\\')
LStrip(s) ==
  LET I == {i \in 1..Len(s) : s[i] # Slash}
  IN IF I = {} THEN <<>> ELSE SubSeq(s, SetMin(I), Len(s))

\* s.rstrip('/')
RStrip(s) ==
  LET I == {i \in 1..Len(s) : s[i] # Slash}
  IN IF I = {} THEN <<>> ELSE SubSeq(s, 1, SetMax(I))

\* ------------------------------------------------------ TreeNode/ObjectTree
\* An ObjectTree is its nodes_registry: a function from relative paths to
\* nodes; root_node is the node registered under ''.  A node names its
\* parent and its children by their relative paths.
TreeNode(parent, relative_path, is_directory, data) ==
  [parent |-> parent, children |-> <<>>, relative_path |-> relative_path,
   is_directory |-> is_directory, data |-> data]

ObjectTree == <<>>

add_node(tree, parent, relative_path, is_directory, data) ==
  LET node == TreeNode(parent, relative_path, is_directory, data)
      appended == IF parent # None
                  THEN [tree EXCEPT ![parent].children = Append(@, relative_path)]
                  ELSE tree
  IN (relative_path :> node) @@ appended

add_root_node(tree, data) == add_node(tree, None, <<>>, TRUE, data)

\* dict.get: the set holding the node, empty for Python's None
get_node(tree, relative_path) ==
  {tree[p] : p \in {relative_path} \cap DOMAIN tree}

RECURSIVE traverse(_, _)
RECURSIVE traverse_children(_, _)
\* node.traverse(recursively=True): each child followed by its own subtree
traverse(tree, node) == traverse_children(tree, node.children)

traverse_children(tree, children) ==
  IF children = <<>> THEN <<>>
  ELSE <<tree[Head(children)]>> \o traverse(tree, tree[Head(children)])
       \o traverse_children(tree, Tail(children))

\* ------------------------------------------------------------ bucket tree
NoData == [keys |-> {}, size |-> 0]

extract_bucket_node_data(object_summary) ==
  [keys |-> {"mtime", "size"}, size |-> object_summary.size]

\* lines 169-178: the parent path inferred from a key
inferred_parent_path(key) ==
  LET path_components == RSplit1(key)
  IN IF Len(path_components) = 2
     THEN IF path_components[2] = <<>>
          THEN LET inner == RSplit1(path_components[1])
               IN IF Len(inner) = 2 /\ inner[2] # <<>>
                  THEN inner[1] \o <<Slash>>
                  ELSE <<>>
          ELSE path_components[1] \o <<Slash>>
     ELSE <<>>

RECURSIVE bucket_tree_loop_continue(_, _)
\* the loop skipping a key whose parent is missing instead of stopping
bucket_tree_loop_continue(tree, objects) ==
  IF objects = <<>> THEN tree
  ELSE LET bucket_object == Head(objects)
           parent == inferred_parent_path(bucket_object.key)
       IN IF get_node(tree, parent) = {}
          THEN bucket_tree_loop_continue(tree, Tail(objects))
          ELSE bucket_tree_loop_continue(
                 add_node(tree, parent, bucket_object.key,
                          EndsWithSlash(bucket_object.key),
                          extract_bucket_node_data(bucket_object)),
                 Tail(objects))

RECURSIVE bucket_tree_loop(_, _)
\* the for loop of build_bucket_tree with its break
bucket_tree_loop(tree, objects) ==
  IF objects = <<>> THEN tree
  ELSE LET bucket_object == Head(objects)
           parent == inferred_parent_path(bucket_object.key)
       IN IF get_node(tree, parent) = {}
          THEN tree
          ELSE bucket_tree_loop(
                 add_node(tree, parent, bucket_object.key,
                          EndsWithSlash(bucket_object.key),
                          extract_bucket_node_data(bucket_object)),
                 Tail(objects))

build_bucket_tree(objects) ==
  bucket_tree_loop(add_root_node(ObjectTree, NoData), objects)

\* --------------------------------------------------------------- os.path
\* ord() of the characters of the alphabet
Ord(c) == CASE c = Slash -> 47 [] c = "a" -> 97 [] c = "b" -> 98 [] c = "r" -> 114

RECURSIVE StrLess(_, _)
\* s < t on Python strings
StrLess(s, t) ==
  IF t = <<>> THEN FALSE
  ELSE IF s = <<>> THEN TRUE
  ELSE IF Head(s) # Head(t) THEN Ord(Head(s)) < Ord(Head(t))
  ELSE StrLess(Tail(s), Tail(t))

RECURSIVE Sorted(_)
\* the strings of a finite set in ascending order
Sorted(S) ==
  IF S = {} THEN <<>>
  ELSE LET m == CHOOSE x \in S : \A y \in S \ {x} : StrLess(x, y)
       IN <<m>> \o Sorted(S \ {m})

\* posixpath.join(a, b)
os_path_join(a, b) ==
  IF StartsWith(b, <<Slash>>) THEN b
  ELSE IF a = <<>> \/ EndsWithSlash(a) THEN a \o b
  ELSE a \o <<Slash>> \o b

\* posixpath.split(p)[0]
os_path_split_head(p) ==
  LET head == SubSeq(p, 1, RFind(p))
  IN IF head # <<>> /\ RStrip(head) # <<>> THEN RStrip(head) ELSE head

RECURSIVE CollapseSlashes(_)
CollapseSlashes(s) ==
  IF Len(s) < 2 THEN s
  ELSE IF s[1] = Slash /\ s[2] = Slash THEN CollapseSlashes(Tail(s))
  ELSE <<Head(s)>> \o CollapseSlashes(Tail(s))

\* posixpath.abspath of an absolute path (normpath): repeated slashes are
\* collapsed, a trailing slash is dropped, exactly two leading slashes stay
os_path_abspath(p) ==
  LET lead == IF StartsWith(p, <<Slash, Slash>>) /\ ~StartsWith(p, <<Slash, Slash, Slash>>)
              THEN <<Slash, Slash>> ELSE <<Slash>>
      body == RStrip(LStrip(CollapseSlashes(p)))
  IN IF body = <<>> THEN lead ELSE lead \o body

\* The local file system: a function from absolute normalized paths to
\* [is_dir, size].  The code hands the OS normalized paths only.
os_path_exists(disk, p) == p \in DOMAIN disk

os_path_isdir(disk, p) == p \in DOMAIN disk /\ disk[p].is_dir

\* os.listdir names of a directory, ascending
ListDir(disk, d, dirs) ==
  Sorted({SubSeq(p, Len(d) + 2, Len(p)) :
            p \in {q \in DOMAIN disk :
                     /\ StartsWith(q, d \o <<Slash>>)
                     /\ Len(q) > Len(d) + 1
                     /\ RFind(q) = Len(d) + 1
                     /\ disk[q].is_dir = dirs}})

RECURSIVE os_walk(_, _)
RECURSIVE os_walk_each(_, _, _)
\* os.walk(top), top-down: (dirpath, dirnames, filenames) triples; a top that
\* is no directory yields nothing
os_walk(disk, top) ==
  IF ~os_path_isdir(disk, top) THEN <<>>
  ELSE <<[dirpath |-> top, dirs |-> ListDir(disk, top, TRUE),
          files |-> ListDir(disk, top, FALSE)]>>
       \o os_walk_each(disk, top, ListDir(disk, top, TRUE))

os_walk_each(disk, top, dirs) ==
  IF dirs = <<>> THEN <<>>
  ELSE os_walk(disk, os_path_join(top, Head(dirs))) \o os_walk_each(disk, top, Tail(dirs))

\* ------------------------------------------------------------- local tree
root_path == <<Slash, "r">>

RuntimeError == <<"RuntimeError">>

extract_local_node_data(disk, path) ==
  [keys |-> {"mtime", "size"}, size |-> disk[path].size]

extract_relative_path(disk, full_path) ==
  IF Len(root_path) > Len(full_path) THEN RuntimeError
  ELSE LET relative_path == LStrip(SubSeq(full_path, Len(root_path) + 1, Len(full_path)))
       IN IF relative_path # <<>> /\ os_path_isdir(disk, full_path)
          THEN relative_path \o <<Slash>>
          ELSE relative_path

RECURSIVE parent_paths_loop(_)
\* lines 125-127: the while loop collecting the ancestors, nearest first
parent_paths_loop(parent_path) ==
  IF parent_path = <<>> THEN <<>>
  ELSE <<parent_path>> \o parent_paths_loop(os_path_split_head(parent_path))

\* lines 121-127
parent_paths(object_relative_path) ==
  LET first == os_path_split_head(object_relative_path)
  IN parent_paths_loop(IF EndsWithSlash(object_relative_path)
                       THEN os_path_split_head(first) ELSE first)

Reverse(s) == [i \in 1..Len(s) |-> s[Len(s) + 1 - i]]

RECURSIVE ancestors_loop(_, _, _, _)
\* lines 129-135: the ancestor chain, root downward, stopping at a gap;
\* yields the tree and the relative path of the deepest node added
ancestors_loop(disk, tree, parent_node, paths) ==
  IF paths = <<>> THEN [tree |-> tree, parent_node |-> parent_node]
  ELSE LET parent_full_path == os_path_join(root_path, Head(paths))
       IN IF ~os_path_exists(disk, parent_full_path)
          THEN [tree |-> tree, parent_node |-> parent_node]
          ELSE LET parent_relative_path == extract_relative_path(disk, parent_full_path)
               IN ancestors_loop(disk,
                    add_node(tree, parent_node, parent_relative_path, TRUE,
                             extract_local_node_data(disk, parent_full_path)),
                    parent_relative_path, Tail(paths))

RECURSIVE add_walked(_, _, _, _, _)
\* lines 148-153: the nodes of one directory's entries
add_walked(disk, tree, parent_full_path, parent_node, names) ==
  IF names = <<>> THEN tree
  ELSE LET obj_full_path == os_path_join(parent_full_path, Head(names))
           obj_relative_path == extract_relative_path(disk, obj_full_path)
       IN add_walked(disk,
            add_node(tree, parent_node, obj_relative_path,
                     EndsWithSlash(obj_relative_path),
                     extract_local_node_data(disk, obj_full_path)),
            parent_full_path, parent_node, Tail(names))

RECURSIVE walk_loop(_, _, _)
\* lines 142-153: the loop over os.walk with its break
walk_loop(disk, tree, triples) ==
  IF triples = <<>> THEN tree
  ELSE LET parent_full_path == Head(triples).dirpath
           parent_relative_path == extract_relative_path(disk, parent_full_path)
       IN IF get_node(tree, parent_relative_path) = {}
          THEN tree
          ELSE walk_loop(disk,
                 add_walked(disk, tree, parent_full_path, parent_relative_path,
                            Head(triples).dirs \o Head(triples).files),
                 Tail(triples))

build_local_tree(disk, obj_path) ==
  LET rooted == add_root_node(ObjectTree, extract_local_node_data(disk, root_path))
      object_relative_path == extract_relative_path(disk, obj_path)
      chain == ancestors_loop(disk, rooted, <<>>,
                              Reverse(parent_paths(object_relative_path)))
      scoped ==
        IF root_path # obj_path
        THEN IF os_path_exists(disk, obj_path)
             THEN add_node(chain.tree, chain.parent_node, object_relative_path, FALSE,
                           extract_local_node_data(disk, obj_path))
             ELSE chain.tree
        ELSE rooted
  IN IF os_path_exists(disk, obj_path)
     THEN walk_loop(disk, scoped, os_walk(disk, obj_path))
     ELSE scoped

\* ------------------------------------------------- difference and plan
\* process_node: which handler is invoked, and on which nodes
process_node(target, node) ==
  IF get_node(target, node.relative_path) # {}
  THEN [handler |-> "found", target_node |-> target[node.relative_path],
        source_node |-> node, path |-> node.relative_path]
  ELSE [handler |-> "absent", target_node |-> node,
        source_node |-> node, path |-> node.relative_path]

\* The handler invocations of one pass, in order.
process_trees_difference(object_relative_path, source, target) ==
  IF get_node(source, object_relative_path) = {} THEN <<>>
  ELSE LET source_node == source[object_relative_path]
           nodes == (IF source_node.relative_path # <<>> THEN <<source_node>> ELSE <<>>)
                    \o traverse(source, source_node)
       IN [i \in 1..Len(nodes) |-> process_node(target, nodes[i])]

\* a change detected only when the source is the larger
is_node_modified_larger(target_node, source_node) ==
  LET target_data == target_node.data
      source_data == source_node.data
  IN IF target_data.keys = {} \/ source_data.keys = {} THEN TRUE
     ELSE target_data.size < source_data.size

is_node_modified(target_node, source_node) ==
  LET target_data == target_node.data
      source_data == source_node.data
  IN IF target_data.keys = {} \/ source_data.keys = {} THEN TRUE
     ELSE IF target_data.size # source_data.size THEN TRUE
     ELSE FALSE

EmptyLists == [LA |-> <<>>, LU |-> <<>>, LD |-> <<>>, BA |-> <<>>, BU |-> <<>>, BD |-> <<>>]

found_local_node_handler(synchronization_type, lists, target_node, source_node) ==
  IF synchronization_type = 1 THEN lists
  ELSE IF is_node_modified(target_node, source_node)
  THEN [lists EXCEPT !.LU = Append(@, source_node.relative_path)]
  ELSE lists

\* the routing of the mode table read by columns: mode 1 no-op, mode 2 Bucket-Delete
absent_local_node_handler_by_table(synchronization_type, lists, node_path) ==
  IF synchronization_type = 1 THEN lists
  ELSE IF synchronization_type = 2
  THEN [lists EXCEPT !.BD = Append(@, node_path)]
  ELSE [lists EXCEPT !.LA = Append(@, node_path)]

absent_local_node_handler(synchronization_type, lists, node_path) ==
  IF synchronization_type = 1
  THEN [lists EXCEPT !.BD = Append(@, node_path)]
  ELSE [lists EXCEPT !.LA = Append(@, node_path)]

found_bucket_node_handler(synchronization_type, lists, target_node, source_node) ==
  IF synchronization_type = 2 THEN lists
  ELSE IF is_node_modified(target_node, source_node)
  THEN [lists EXCEPT !.BU = Append(@, source_node.relative_path)]
  ELSE lists

\* the two replication modes exchanged
absent_bucket_node_handler_swapped(synchronization_type, lists, node_path) ==
  IF synchronization_type = 1
  THEN [lists EXCEPT !.LD = Append(@, node_path)]
  ELSE [lists EXCEPT !.BA = Append(@, node_path)]

absent_bucket_node_handler(synchronization_type, lists, node_path) ==
  IF synchronization_type = 2
  THEN [lists EXCEPT !.LD = Append(@, node_path)]
  ELSE [lists EXCEPT !.BA = Append(@, node_path)]

RECURSIVE local_pass(_, _, _)
\* pass 1 (lines 253-255): the handlers applied to the invocations in order
local_pass(synchronization_type, lists, calls) ==
  IF calls = <<>> THEN lists
  ELSE LET c == Head(calls)
       IN local_pass(synchronization_type,
            IF c.handler = "found"
            THEN found_local_node_handler(synchronization_type, lists, c.target_node, c.source_node)
            ELSE absent_local_node_handler(synchronization_type, lists, c.path),
            Tail(calls))

RECURSIVE bucket_pass(_, _, _)
\* pass 2 (lines 257-259)
bucket_pass(synchronization_type, lists, calls) ==
  IF calls = <<>> THEN lists
  ELSE LET c == Head(calls)
       IN bucket_pass(synchronization_type,
            IF c.handler = "found"
            THEN found_bucket_node_handler(synchronization_type, lists, c.target_node, c.source_node)
            ELSE absent_bucket_node_handler(synchronization_type, lists, c.path),
            Tail(calls))

\* The handler and path of each invocation of a pass.
Invocations(calls) ==
  [i \in 1..Len(calls) |-> [handler |-> calls[i].handler, path |-> calls[i].path]]

build_synchronization_list(disk, objects, obj_path, synchronization_type) ==
  LET local == build_local_tree(disk, obj_path)
      remote == build_bucket_tree(objects)
      object_relative_path == extract_relative_path(disk, obj_path)
      calls1 == process_trees_difference(object_relative_path, remote, local)
      calls2 == process_trees_difference(object_relative_path, local, remote)
  IN [local_tree |-> local, bucket_tree |-> remote,
      pass1 |-> Invocations(calls1), pass2 |-> Invocations(calls2),
      synchronization_list |->
        bucket_pass(synchronization_type,
                    local_pass(synchronization_type, EmptyLists, calls1), calls2)]

\* -------------------------------------------------------------- execution
\* lines 301, 305, 310: os.path.abspath(os.path.join(self.root_path, rel_path))
full_path_of(rel_path) == os_path_abspath(os_path_join(root_path, rel_path))

Phases == <<"upload", "download", "delete_local", "delete_bucket">>

\* the deletion loops entered whatever execute_removal is
phase_items_unguarded(lists, execute_removal, phase) ==
  CASE phase = "upload" -> lists.BA \o lists.BU
    [] phase = "download" -> lists.LA \o lists.LU
    [] phase = "delete_local" -> lists.LD
    [] phase = "delete_bucket" -> lists.BD

\* the paths one loop of execute_synchronization iterates over; the two
\* deletion loops are entered only under execute_removal (line 308)
phase_items(lists, execute_removal, phase) ==
  CASE phase = "upload" -> lists.BA \o lists.BU
    [] phase = "download" -> lists.LA \o lists.LU
    [] phase = "delete_local" -> IF execute_removal THEN lists.LD ELSE <<>>
    [] phase = "delete_bucket" -> IF execute_removal THEN lists.BD ELSE <<>>

RECURSIVE position(_, _, _, _)
\* where control stands when iteration i of loop k is due: in that loop, in
\* the first later loop that has an item, or past the last loop
position(lists, execute_removal, k, i) ==
  IF k > Len(Phases) THEN [pc |-> "done", idx |-> 0]
  ELSE IF i <= Len(phase_items(lists, execute_removal, Phases[k]))
  THEN [pc |-> Phases[k], idx |-> i]
  ELSE position(lists, execute_removal, k + 1, 1)

PhaseIndex(phase) == CHOOSE k \in 1..Len(Phases) : Phases[k] = phase

\* the object summaries after a put of `key`: replaced in place, or listed
\* before the first greater key
put_object(objects, key, size) ==
  IF \E i \in 1..Len(objects) : objects[i].key = key
  THEN [i \in 1..Len(objects) |->
          IF objects[i].key = key THEN [key |-> key, size |-> size] ELSE objects[i]]
  ELSE LET after == {i \in 1..Len(objects) : StrLess(key, objects[i].key)}
           at == IF after = {} THEN Len(objects) + 1 ELSE SetMin(after)
       IN SubSeq(objects, 1, at - 1) \o <<[key |-> key, size |-> size]>>
          \o SubSeq(objects, at, Len(objects))

delete_object(objects, key) == SelectSeq(objects, LAMBDA o : o.key # key)

object_size(objects, key) ==
  LET i == CHOOSE j \in 1..Len(objects) : objects[j].key = key
  IN objects[i].size

\* what open(full_path, 'wb') or os.mkdir(full_path) raises for the state
\* of the disk, "none" when the call goes through
create_error(disk, full_path, as_directory) ==
  LET up == os_path_split_head(full_path)
  IN IF ~os_path_exists(disk, up) THEN "FileNotFoundError"
     ELSE IF ~os_path_isdir(disk, up) THEN "NotADirectoryError"
     ELSE IF ~as_directory /\ os_path_isdir(disk, full_path) THEN "IsADirectoryError"
     ELSE "none"

\* ------------------------------------------------------------------ state
VARIABLES
  fs,                    \* the local disk: absolute path -> [is_dir, size]
  bucket,                \* the bucket's object summaries, in listing order
  object_path,           \* ObjectSynchronizer.object_path
  synchronization_type,  \* args.type
  local_tree,            \* ObjectSynchronizer.local_tree
  bucket_tree,           \* ObjectSynchronizer.bucket_tree
  synchronization_list,  \* ObjectSynchronizer.synchronization_list
  pass1,                 \* handler invocations of pass 1, in order
  pass2,                 \* handler invocations of pass 2, in order
  args_delete,           \* args.delete
  entry,                 \* who called execute_synchronization
  execute_removal,       \* the parameter of execute_synchronization
  pc,                    \* "main", "planned", a loop of Phases, "done", "aborted"
  idx,                   \* the iteration due in the loop pc names
  log,                   \* the object operations called so far, with outcomes
  error,                 \* the exception that ended the run, "none" otherwise
  run                    \* how many times the program has been started

plan_vars == <<local_tree, bucket_tree, synchronization_list, pass1, pass2>>

input_vars == <<object_path, synchronization_type, args_delete>>

vars == <<fs, bucket, object_path, synchronization_type, local_tree, bucket_tree,
          synchronization_list, pass1, pass2, args_delete, entry, execute_removal,
          pc, idx, log, error, run>>

\* ----------------------------------------------------------------- inputs
Names == {"a", "b"}

\* sizes of objects (a directory marker is empty) and of local entries
Sizes == 0..MaxSize

LocalSizes == 1..MaxSize

\* the one directory whose entries are modelled
Nest == "a"

\* relative locations below the root: the names, and the names below Nest
RelPaths == {<<n>> : n \in Names} \cup {<<Nest, Slash, m>> : m \in Names}

Abs(rel) == root_path \o <<Slash>> \o rel

\* A disk below an existing root directory: every entry's parent is a
\* directory of the disk.
Disks ==
  LET Entries == [is_dir : BOOLEAN, size : LocalSizes]
      Shapes == {S \in SUBSET RelPaths : Cardinality(S) <= MaxLocal}
      Raw == UNION {[{Abs(rel) : rel \in S} -> Entries] : S \in Shapes}
      WellFormed(d) ==
        \A p \in DOMAIN d :
          LET up == os_path_split_head(p)
          IN up = root_path \/ (up \in DOMAIN d /\ d[up].is_dir)
  IN {(root_path :> [is_dir |-> TRUE, size |-> 0]) @@ d : d \in {r \in Raw : WellFormed(r)}}

\* keys naming a file or a directory marker at a relative location
BucketKeys == RelPaths \cup {rel \o <<Slash>> : rel \in RelPaths}

\* bucket.objects.all() lists the keys in ascending order
Listing(content) ==
  LET keys == Sorted(DOMAIN content)
  IN [i \in 1..Len(keys) |-> [key |-> keys[i], size |-> content[keys[i]]]]

Buckets ==
  {Listing(c) : c \in UNION {[K -> Sizes] : K \in {S \in SUBSET BucketKeys :
                                                     Cardinality(S) <= MaxBucket}}}

Init ==
  /\ fs \in Disks
  /\ bucket \in Buckets
  /\ object_path \in {root_path} \cup {Abs(rel) : rel \in RelPaths}
  /\ synchronization_type \in {0, 1, 2}
  /\ local_tree = ObjectTree
  /\ bucket_tree = ObjectTree
  /\ synchronization_list = EmptyLists
  /\ pass1 = <<>>
  /\ pass2 = <<>>
  /\ args_delete \in BOOLEAN
  /\ entry = "none"
  /\ execute_removal = FALSE
  /\ pc = "main"
  /\ idx = 0
  /\ log = <<>>
  /\ error = "none"
  /\ run = 1

\* line 346: manager.build_synchronization_list(args.type)
BuildSynchronizationList ==
  /\ pc = "main"
  /\ LET r == build_synchronization_list(fs, bucket, object_path, synchronization_type)
     IN /\ local_tree' = r.local_tree
        /\ bucket_tree' = r.bucket_tree
        /\ synchronization_list' = r.synchronization_list
        /\ pass1' = r.pass1
        /\ pass2' = r.pass2
  /\ pc' = "planned"
  /\ UNCHANGED <<fs, bucket, input_vars, entry, execute_removal, idx, log, error, run>>

Enter(by, removal) ==
  LET at == position(synchronization_list, removal, 1, 1)
  IN /\ pc = "planned"
     /\ entry' = by
     /\ execute_removal' = removal
     /\ pc' = at.pc
     /\ idx' = at.idx
     /\ UNCHANGED <<fs, bucket, input_vars, plan_vars, log, error, run>>

\* line 347: manager.execute_synchronization()
MainExecute == Enter("main", FALSE)

\* a caller of the class passing execute_removal=True
CallExecute == Enter("call", TRUE)

Item == phase_items(synchronization_list, execute_removal, pc)[idx]

Logged(op, outcome) == Append(log, [op |-> op, path |-> Item, outcome |-> outcome])

\* the loop goes on to its next iteration
Continue ==
  LET at == position(synchronization_list, execute_removal, PhaseIndex(pc), idx + 1)
  IN /\ pc' = at.pc
     /\ idx' = at.idx
     /\ error' = error

\* an exception nothing catches ends the run
Abort(exception) ==
  /\ pc' = "aborted"
  /\ idx' = idx
  /\ error' = exception

\* upload_bucket_object: the marker is put, or the file is opened and sent
UploadBucketObject ==
  /\ pc = "upload"
  /\ IF EndsWithSlash(Item)
     THEN /\ bucket' = put_object(bucket, Item, 0)
          /\ log' = Logged("upload", "done")
          /\ Continue
     ELSE IF ~os_path_exists(fs, full_path_of(Item))
     THEN /\ bucket' = bucket
          /\ log' = Logged("upload", "raised")
          /\ Abort("FileNotFoundError")
     ELSE /\ bucket' = put_object(bucket, Item, fs[full_path_of(Item)].size)
          /\ log' = Logged("upload", "done")
          /\ Continue
  /\ UNCHANGED <<fs, input_vars, plan_vars, entry, execute_removal, run>>

\* upload_bucket_object: open(full_path, 'rb') is denied; nothing catches it
UploadDenied ==
  /\ pc = "upload"
  /\ ~EndsWithSlash(Item)
  /\ os_path_exists(fs, full_path_of(Item))
  /\ log' = Logged("upload", "raised")
  /\ Abort("PermissionError")
  /\ UNCHANGED <<fs, bucket, input_vars, plan_vars, entry, execute_removal, run>>

\* download_bucket_object: the directory is made if missing, or the file is
\* opened for writing and filled; an OSError other than PermissionError
\* is not caught
DownloadBucketObject ==
  /\ pc = "download"
  /\ LET full_path == full_path_of(Item)
         failure == create_error(fs, full_path, EndsWithSlash(Item))
     IN IF EndsWithSlash(Item) /\ os_path_exists(fs, full_path)
        THEN /\ fs' = fs
             /\ log' = Logged("download", "done")
             /\ Continue
        ELSE IF failure # "none"
        THEN /\ fs' = fs
             /\ log' = Logged("download", "raised")
             /\ Abort(failure)
        ELSE IF EndsWithSlash(Item)
        THEN /\ \E size \in LocalSizes :
                  fs' = (full_path :> [is_dir |-> TRUE, size |-> size]) @@ fs
             /\ log' = Logged("download", "done")
             /\ Continue
        ELSE /\ fs' = (full_path :> [is_dir |-> FALSE,
                                      size |-> object_size(bucket, Item)]) @@ fs
             /\ log' = Logged("download", "done")
             /\ Continue
  /\ UNCHANGED <<bucket, input_vars, plan_vars, entry, execute_removal, run>>

\* download_bucket_object: os.mkdir or open(full_path, 'wb') is denied;
\* lines 279-280 report it
DownloadDenied ==
  /\ pc = "download"
  /\ ~(EndsWithSlash(Item) /\ os_path_exists(fs, full_path_of(Item)))
  /\ log' = Logged("download", "error")
  /\ Continue
  /\ UNCHANGED <<fs, bucket, input_vars, plan_vars, entry, execute_removal, run>>

\* delete_local_object: os.remove of an existing path; removing a
\* directory raises IsADirectoryError, which nothing catches
DeleteLocalObject ==
  /\ pc = "delete_local"
  /\ LET full_path == full_path_of(Item)
     IN IF ~os_path_exists(fs, full_path)
        THEN /\ fs' = fs
             /\ log' = Logged("delete_local", "done")
             /\ Continue
        ELSE IF os_path_isdir(fs, full_path)
        THEN /\ fs' = fs
             /\ log' = Logged("delete_local", "raised")
             /\ Abort("IsADirectoryError")
        ELSE /\ fs' = [p \in DOMAIN fs \ {full_path} |-> fs[p]]
             /\ log' = Logged("delete_local", "done")
             /\ Continue
  /\ UNCHANGED <<bucket, input_vars, plan_vars, entry, execute_removal, run>>

\* delete_local_object: os.remove is denied; lines 289-290 report it
DeleteLocalDenied ==
  /\ pc = "delete_local"
  /\ os_path_exists(fs, full_path_of(Item))
  /\ log' = Logged("delete_local", "error")
  /\ Continue
  /\ UNCHANGED <<fs, bucket, input_vars, plan_vars, entry, execute_removal, run>>

\* delete_bucket_object: the object is deleted.  self.bucket.Object(Key=key)
\* is a call into boto3, outside the source: it goes through, or it raises
\* (DeleteBucketRaises).
DeleteBucketObject ==
  /\ pc = "delete_bucket"
  /\ bucket' = delete_object(bucket, Item)
  /\ log' = Logged("delete_bucket", "done")
  /\ Continue
  /\ UNCHANGED <<fs, input_vars, plan_vars, entry, execute_removal, run>>

\* delete_bucket_object: the boto3 call raises; nothing catches it
DeleteBucketRaises ==
  /\ pc = "delete_bucket"
  /\ log' = Logged("delete_bucket", "raised")
  /\ Abort("ValueError")
  /\ UNCHANGED <<fs, bucket, input_vars, plan_vars, entry, execute_removal, run>>

Next ==
  \/ BuildSynchronizationList
  \/ MainExecute
  \/ CallExecute
  \/ UploadBucketObject
  \/ UploadDenied
  \/ DownloadBucketObject
  \/ DownloadDenied
  \/ DeleteLocalObject
  \/ DeleteLocalDenied
  \/ DeleteBucketObject
  \/ DeleteBucketRaises

Spec == Init /\ [][Next]_vars

\* ------------------------------------------------------------ second run
\* the program is started again on what the finished run left
RunAgain ==
  /\ pc = "done"
  /\ run < MaxRuns
  /\ run' = run + 1
  /\ pc' = "main"
  /\ idx' = 0
  /\ log' = <<>>
  /\ entry' = "none"
  /\ execute_removal' = FALSE
  /\ error' = "none"
  /\ UNCHANGED <<fs, bucket, input_vars, plan_vars>>

\* every key's inferred parent is the root or a key listed before it
ParentsPrecede(objects) ==
  \A i \in 1..Len(objects) :
    \/ inferred_parent_path(objects[i].key) = <<>>
    \/ \E j \in 1..(i - 1) : objects[j].key = inferred_parent_path(objects[i].key)

\* bidirectional runs over the whole root, parents listed before children
InitRerun ==
  /\ Init
  /\ synchronization_type = 0
  /\ object_path = root_path
  /\ ParentsPrecede(bucket)

\* the runs in which no transfer is denied
NextRerun ==
  \/ BuildSynchronizationList
  \/ MainExecute
  \/ UploadBucketObject
  \/ DownloadBucketObject
  \/ RunAgain

SpecRerun == InitRerun /\ [][NextRerun]_vars

\* ------------------------------------------------- arbitrary listings
ListingChars == {"a", Slash}

ListingKeys == UNION {[1..n -> ListingChars] : n \in 1..MaxKeyLen}

Listings ==
  UNION {{l \in [1..n -> ListingKeys] : \A i, j \in 1..n : i # j => l[i] # l[j]}
         : n \in 0..MaxListing}

\* A bucket whose listing presents any distinct keys in any order, beside an
\* empty root directory.
InitListing ==
  /\ \E l \in Listings :
       bucket = [i \in 1..Len(l) |-> [key |-> l[i], size |-> 0]]
  /\ fs = (root_path :> [is_dir |-> TRUE, size |-> 0])
  /\ object_path = root_path
  /\ synchronization_type \in {0, 1, 2}
  /\ local_tree = ObjectTree
  /\ bucket_tree = ObjectTree
  /\ synchronization_list = EmptyLists
  /\ pass1 = <<>>
  /\ pass2 = <<>>
  /\ args_delete = FALSE
  /\ entry = "none"
  /\ execute_removal = FALSE
  /\ pc = "main"
  /\ idx = 0
  /\ log = <<>>
  /\ error = "none"
  /\ run = 1

NextListing == BuildSynchronizationList

SpecListing == InitListing /\ [][NextListing]_vars

\* ================================================================ claims
InList(list, path) == \E i \in 1..Len(list) : list[i] = path

Paths(list) == {list[i] : i \in 1..Len(list)}

NoDuplicates(list) == \A i, j \in 1..Len(list) : i # j => list[i] # list[j]

ListNames == {"LA", "LU", "LD", "BA", "BU", "BD"}

\* the lists a path is in
ListsWith(path) == {n \in ListNames : InList(synchronization_list[n], path)}

\* the scope path handed to both passes (line 251)
ScopePath == extract_relative_path(fs, object_path)

\* a node path at the scope path or below it
InScope(path) ==
  /\ path # <<>>
  /\ \/ ScopePath = <<>>
     \/ path = ScopePath
     \/ EndsWithSlash(ScopePath) /\ StartsWith(path, ScopePath)

LocalOnly == {p \in DOMAIN local_tree \ DOMAIN bucket_tree : InScope(p)}

BucketOnly == {p \in DOMAIN bucket_tree \ DOMAIN local_tree : InScope(p)}

\* ---------------------------------------------------------------- C1
\* C1, as stated: in mode 1 every path of the scope that is in the local
\* tree and not in the bucket tree is in Local-Delete and not in Bucket-Add.
C1_LocalOnlyDeletedInMode1 ==
  (pc = "planned" /\ synchronization_type = 1) =>
    \A p \in LocalOnly :
      InList(synchronization_list.LD, p) /\ ~InList(synchronization_list.BA, p)

\* C1, amended: in mode 1 every path of the scope that is in the local tree
\* and not in the bucket tree is in Bucket-Add and not in Local-Delete; it is
\* in mode 2 that it is in Local-Delete and not in Bucket-Add.
C1_LocalOnlyRouted ==
  pc = "planned" =>
    \A p \in LocalOnly :
      /\ synchronization_type = 1 =>
           InList(synchronization_list.BA, p) /\ ~InList(synchronization_list.LD, p)
      /\ synchronization_type = 2 =>
           InList(synchronization_list.LD, p) /\ ~InList(synchronization_list.BA, p)

C1_Witness ==
  /\ pc = "planned"
  /\ synchronization_type = 1
  /\ object_path # root_path
  /\ \E p \in LocalOnly : InList(synchronization_list.BA, p)

\* ---------------------------------------------------------------- C2
\* C2: a run from the command line with --delete that ends has passed every
\* path of Local-Delete to delete_local_object and every path of
\* Bucket-Delete to delete_bucket_object.
C2_DeleteFlagDeletes ==
  (pc = "done" /\ entry = "main" /\ args_delete) =>
    /\ \A p \in Paths(synchronization_list.LD) :
         \E i \in 1..Len(log) : log[i].op = "delete_local" /\ log[i].path = p
    /\ \A p \in Paths(synchronization_list.BD) :
         \E i \in 1..Len(log) : log[i].op = "delete_bucket" /\ log[i].path = p

\* ---------------------------------------------------------------- C3
\* the bucket tree holds every listed key
FullyBuilt == DOMAIN bucket_tree = {<<>>} \cup {bucket[i].key : i \in 1..Len(bucket)}

\* sizes differ, or a side has no metadata
Differs(p) ==
  \/ local_tree[p].data.keys = {}
  \/ bucket_tree[p].data.keys = {}
  \/ local_tree[p].data.size # bucket_tree[p].data.size

\* C3: in mode 0 with the root as scope and the bucket tree fully built,
\* Local-Add is the bucket-tree paths missing from the local tree, Bucket-Add
\* the local-tree paths missing from the bucket tree, Local-Update and
\* Bucket-Update both the common non-root paths whose sizes differ or that
\* lack metadata on a side, and the two Delete lists are empty.
C3_BidirectionalPlan ==
  (pc = "planned" /\ synchronization_type = 0 /\ object_path = root_path /\ FullyBuilt) =>
    LET common == {p \in (DOMAIN local_tree \cap DOMAIN bucket_tree) \ {<<>>} : Differs(p)}
    IN /\ Paths(synchronization_list.LA) = DOMAIN bucket_tree \ DOMAIN local_tree
       /\ Paths(synchronization_list.BA) = DOMAIN local_tree \ DOMAIN bucket_tree
       /\ Paths(synchronization_list.LU) = common
       /\ Paths(synchronization_list.BU) = common
       /\ synchronization_list.LD = <<>>
       /\ synchronization_list.BD = <<>>
       /\ \A n \in ListNames : NoDuplicates(synchronization_list[n])

C3_Witness ==
  /\ pc = "planned"
  /\ synchronization_type = 0
  /\ object_path = root_path
  /\ FullyBuilt
  /\ synchronization_list.LA # <<>>
  /\ synchronization_list.BA # <<>>
  /\ \E p \in Paths(synchronization_list.LU) :
       /\ InList(synchronization_list.BU, p)
       /\ ~EndsWithSlash(p)
       /\ local_tree[p].data.size # bucket_tree[p].data.size

\* ---------------------------------------------------------------- C4
\* C4, as stated: a bucket-tree node of the scope that is missing from the
\* local tree is in Local-Add alone in mode 0, in no list in mode 1, and in
\* Bucket-Delete alone in mode 2.
C4_BucketOnlyRoutedByTable ==
  pc = "planned" =>
    \A p \in BucketOnly :
      ListsWith(p) = CASE synchronization_type = 0 -> {"LA"}
                       [] synchronization_type = 1 -> {}
                       [] synchronization_type = 2 -> {"BD"}

\* C4, amended: such a node is in Local-Add alone in mode 0, in
\* Bucket-Delete alone in mode 1, and in Local-Add alone in mode 2.
C4_BucketOnlyRouted ==
  pc = "planned" =>
    \A p \in BucketOnly :
      ListsWith(p) = CASE synchronization_type = 0 -> {"LA"}
                       [] synchronization_type = 1 -> {"BD"}
                       [] synchronization_type = 2 -> {"LA"}

C4_Witness ==
  /\ pc = "planned"
  /\ synchronization_type = 1
  /\ object_path # root_path
  /\ \E p \in BucketOnly : ListsWith(p) = {"BD"}

\* ---------------------------------------------------------------- C5
PhaseOf(op) ==
  CASE op = "upload" -> 1 [] op = "download" -> 2
    [] op = "delete_local" -> 3 [] op = "delete_bucket" -> 4

\* C5: the operations called so far are in phase order (uploads, then
\* downloads, then local deletes, then bucket deletes), each on a path of
\* its phase's lists, and without execute_removal none is a delete.
C5_PhaseOrder ==
  /\ \A i, j \in 1..Len(log) : i < j => PhaseOf(log[i].op) <= PhaseOf(log[j].op)
  /\ \A i \in 1..Len(log) :
       log[i].path \in
         CASE log[i].op = "upload" ->
                Paths(synchronization_list.BA) \cup Paths(synchronization_list.BU)
           [] log[i].op = "download" ->
                Paths(synchronization_list.LA) \cup Paths(synchronization_list.LU)
           [] log[i].op = "delete_local" -> Paths(synchronization_list.LD)
           [] log[i].op = "delete_bucket" -> Paths(synchronization_list.BD)
  /\ ~execute_removal =>
       \A i \in 1..Len(log) : log[i].op \notin {"delete_local", "delete_bucket"}

C5_Witness ==
  /\ pc = "done"
  /\ execute_removal
  /\ \E i, j \in 1..Len(log) :
       /\ i < j
       /\ log[i].op = "download"
       /\ log[j].op = "delete_local"
       /\ log[j].outcome = "done"

\* ---------------------------------------------------------------- C6
\* the key at position i has its inferred parent at the root or before it
ParentListed(i) ==
  \/ inferred_parent_path(bucket[i].key) = <<>>
  \/ \E j \in 1..(i - 1) : bucket[j].key = inferred_parent_path(bucket[i].key)

\* the length of the longest prefix of the listing whose keys all have that
InsertablePrefix ==
  SetMax({n \in 0..Len(bucket) : \A i \in 1..n : ParentListed(i)})

\* C6: the non-root nodes of the bucket tree are exactly the keys of the
\* longest prefix of the listing in which every key's inferred parent is the
\* root or an earlier key; the first key without it and all keys after it
\* are missing, and no error is raised.
C6_BucketTreeTruncated ==
  pc = "planned" =>
    /\ DOMAIN bucket_tree \ {<<>>} = {bucket[i].key : i \in 1..InsertablePrefix}
    /\ \A i \in (InsertablePrefix + 1)..Len(bucket) : bucket[i].key \notin DOMAIN bucket_tree
    /\ error = "none"

\* a key listed before its directory marker, and the marker left out after it
C6_Witness ==
  /\ pc = "planned"
  /\ Len(bucket) = 2
  /\ ~ParentListed(1)
  /\ inferred_parent_path(bucket[1].key) = bucket[2].key
  /\ ParentListed(2)
  /\ DOMAIN bucket_tree = {<<>>}

\* ---------------------------------------------------------------- C7
\* C7: no run is ended by a permission failure on one of its items.
C7_PermissionFailureIsolated ==
  pc = "aborted" => error # "PermissionError"

\* ---------------------------------------------------------------- C8
\* the scope object's location below the root, without a trailing slash
ScopeLocation == LStrip(SubSeq(object_path, Len(root_path) + 1, Len(object_path)))

\* a bucket key naming the scope object or something below it: by the scope
\* path when the object exists locally; as a file or as a directory of the
\* bucket when it does not
BucketSideInScope(key) ==
  /\ key # <<>>
  /\ IF os_path_exists(fs, object_path) THEN InScope(key)
     ELSE \/ key = ScopeLocation
          \/ StartsWith(key, ScopeLocation \o <<Slash>>)

\* C8: pass 1 invokes exactly one handler exactly once for every bucket-tree
\* node at the scope object's path or below it, a parent before its
\* children, also when the scope object does not exist locally.
C8_PassOneClassifiesScope ==
  pc = "planned" =>
    \A key \in DOMAIN bucket_tree :
      BucketSideInScope(key) =>
        /\ Cardinality({i \in 1..Len(pass1) : pass1[i].path = key}) = 1
        /\ \A i, j \in 1..Len(pass1) :
             (pass1[i].path = key /\ pass1[j].path = inferred_parent_path(key)) => j < i

\* ---------------------------------------------------------------- C9
\* every path of the list has its parent at the root, in the target tree,
\* or earlier in the list
ClosedUnderParents(list, target) ==
  \A i \in 1..Len(list) :
    LET up == inferred_parent_path(list[i])
    IN \/ up = <<>>
       \/ up \in DOMAIN target
       \/ \E j \in 1..(i - 1) : list[j] = up

\* C9: Local-Add is closed under parents with respect to the local tree and
\* Bucket-Add with respect to the bucket tree, for every scope.
C9_AddListsClosed ==
  pc = "planned" =>
    /\ ClosedUnderParents(synchronization_list.LA, local_tree)
    /\ ClosedUnderParents(synchronization_list.BA, bucket_tree)

\* ---------------------------------------------------------------- C10
\* C10: the plan built right after a bidirectional run over the root in
\* which every transfer succeeded has six empty lists.
C10_SecondPlanEmpty ==
  (run = 2 /\ pc = "planned") => synchronization_list = EmptyLists

====
